---- MODULE Spec2Model ----
(***************************************************************************)
(* Model of the twilight crate: calc::calculate_twilight (src/src/calc.rs) *)
(* and the result adapter Twilight / TwilightTimes (src/src/lib.rs).       *)
(*                                                                         *)
(* Number representation.  The crate computes with i64, u32 and f64.       *)
(* Their values do not fit the model checker's machine integers, so every *)
(* number is a sign and a magnitude, the magnitude a little-endian         *)
(* sequence of limbs in radix Base without leading zero limbs:             *)
(*   - an i64 or u32 is its exact value, with the range of the type        *)
(*     enforced by I64Op / U32Op (panic with overflow checks, wrap        *)
(*     without);                                                           *)
(*   - an f64 is a fixed-point number with 16 decimal places (the value    *)
(*     times Scale), each operation rounded to the nearest representable   *)
(*     value.  sin, cos, asin and acos are evaluated by their series to    *)
(*     that precision.                                                     *)
(***************************************************************************)
EXTENDS Integers, Sequences, FiniteSets, TLC

(***************************************************************************)
(* Natural numbers as limb sequences                                       *)
(***************************************************************************)
Base == 10000

Limb(s, i) == IF i <= Len(s) THEN s[i] ELSE 0

MaxOf(a, b) == IF a >= b THEN a ELSE b

MinOf(a, b) == IF a <= b THEN a ELSE b

\* the index of the leading nonzero limb of s, 0 if there is none
TopLimb(s) ==
    CHOOSE i \in 0..Len(s) : (i = 0 \/ s[i] # 0) /\ \A j \in (i + 1)..Len(s) : s[j] = 0

\* s without its leading zero limbs
Trim(s) == SubSeq(s, 1, TopLimb(s))

\* the limbs of a machine integer n >= 0
NatOf(n) == Trim(<<n % Base, (n \div Base) % Base, n \div (Base * Base)>>)

\* a carry enters column i of cols (each column below 2 * Base - 1): a column
\* below overflows and every column between passes the carry on
CarryIn(cols, i) ==
    \E j \in 1..(i - 1) : cols[j] >= Base /\ \A k \in (j + 1)..(i - 1) : cols[k] = Base - 1

\* the number whose columns are cols
Carried(cols) ==
    Trim([i \in 1..(Len(cols) + 1) |->
             (Limb(cols, i) + IF CarryIn(cols, i) THEN 1 ELSE 0) % Base])

\* a borrow leaves column i of cols (each column above -Base)
BorrowIn(cols, i) ==
    \E j \in 1..(i - 1) : cols[j] < 0 /\ \A k \in (j + 1)..(i - 1) : cols[k] <= 0

Borrowed(cols) ==
    Trim([i \in 1..Len(cols) |-> (cols[i] - IF BorrowIn(cols, i) THEN 1 ELSE 0) % Base])

NatAdd(a, b) ==
    IF a = <<>> THEN b
    ELSE IF b = <<>> THEN a
    ELSE Carried(<<>> \o [i \in 1..MaxOf(Len(a), Len(b)) |-> Limb(a, i) + Limb(b, i)])

\* a - b for a >= b
NatSub(a, b) ==
    IF b = <<>> THEN a
    ELSE Borrowed(<<>> \o [i \in 1..Len(a) |-> a[i] - Limb(b, i)])

\* the sum of a[i] * b[k - i + 1] over i in lo..hi
RECURSIVE ColSum(_, _, _, _, _)
ColSum(a, b, k, lo, hi) ==
    IF lo > hi THEN 0
    ELSE IF lo = hi THEN a[lo] * b[k - lo + 1]
    ELSE ColSum(a, b, k, lo, (lo + hi) \div 2) + ColSum(a, b, k, (lo + hi) \div 2 + 1, hi)

\* each column keeps its low limb and takes the rest of the column below
Spill(cols) ==
    <<>> \o [i \in 1..(Len(cols) + 1) |->
                (Limb(cols, i) % Base) + (IF i > 1 THEN cols[i - 1] \div Base ELSE 0)]

\* a times the limb d
MulSmall(a, d) == Carried(Spill(<<>> \o [i \in 1..Len(a) |-> a[i] * d]))

NatMul(a, b) ==
    IF a = <<>> \/ b = <<>> THEN <<>>
    ELSE IF Len(b) = 1 THEN MulSmall(a, b[1])
    ELSE Carried(Spill(Spill(<<>> \o [k \in 1..(Len(a) + Len(b)) |->
                                         ColSum(a, b, k, MaxOf(1, k - Len(b) + 1),
                                                MinOf(Len(a), k))])))

\* the leading limb in which a and b of one length differ, 0 if they are equal
TopDiff(a, b) ==
    CHOOSE i \in 0..Len(a) :
        (i = 0 \/ a[i] # b[i]) /\ \A j \in (i + 1)..Len(a) : a[j] = b[j]

CmpAt(a, b, i) == IF i = 0 THEN 0 ELSE IF a[i] > b[i] THEN 1 ELSE -1

NatCmp(a, b) ==
    IF Len(a) > Len(b) THEN 1
    ELSE IF Len(a) < Len(b) THEN -1
    ELSE CmpAt(a, b, TopDiff(a, b))

\* the largest q in lo..hi with q * b <= r, given lo * b <= r
RECURSIVE QuoDigit(_, _, _, _)
QuoDigit(r, b, lo, hi) ==
    IF lo = hi THEN lo
    ELSE IF NatCmp(NatMul(b, NatOf((lo + hi + 1) \div 2)), r) <= 0
         THEN QuoDigit(r, b, (lo + hi + 1) \div 2, hi)
         ELSE QuoDigit(r, b, lo, (lo + hi + 1) \div 2 - 1)

\* the quotient digit of cur by b, for cur < b * Base and b normalized (its
\* leading limb at least Base / 2): at most 2 below the estimate qhat taken
\* from the leading limbs
QuoEstimate(cur, b, qhat) ==
    IF NatCmp(cur, b) < 0 THEN 0
    ELSE QuoDigit(cur, b, MaxOf(qhat - 2, 0), qhat)

\* one step of long division: the digit of cur by b and what remains
DivOneWith(b, cur, q) == [digits |-> <<q>>, rem |-> NatSub(cur, NatMul(b, NatOf(q)))]

DivOne(b, cur) ==
    DivOneWith(b, cur,
               QuoEstimate(cur, b,
                           MinOf((Limb(cur, Len(b)) + Limb(cur, Len(b) + 1) * Base)
                                     \div b[Len(b)],
                                 Base - 1)))

\* the digits of the high limbs, then those of the low limbs
Joined(digits, low) == [digits |-> digits \o low.digits, rem |-> low.rem]

\* long division of the limbs a[hi], ..., a[lo] with the running remainder
\* rem, by a normalized b: the quotient's digits from the leading one down,
\* and the remainder
RECURSIVE DivRange(_, _, _, _, _)
DivLow(a, b, lo, mid, high) == Joined(high.digits, DivRange(a, b, lo, mid, high.rem))

DivRange(a, b, lo, hi, rem) ==
    IF lo > hi THEN [digits |-> <<>>, rem |-> rem]
    ELSE IF lo = hi THEN DivOne(b, Trim(<<a[lo]>> \o rem))
    ELSE DivLow(a, b, lo, (lo + hi) \div 2, DivRange(a, b, (lo + hi) \div 2 + 1, hi, rem))

\* the same for a divisor d of one limb, the remainder a machine integer
RECURSIVE DivSmallRange(_, _, _, _, _)
DivSmallLow(a, d, lo, mid, high) ==
    Joined(high.digits, DivSmallRange(a, d, lo, mid, high.rem))

DivSmallRange(a, d, lo, hi, rem) ==
    IF lo > hi THEN [digits |-> <<>>, rem |-> rem]
    ELSE IF lo = hi
         THEN [digits |-> <<(rem * Base + a[lo]) \div d>>, rem |-> (rem * Base + a[lo]) % d]
    ELSE DivSmallLow(a, d, lo, (lo + hi) \div 2,
                     DivSmallRange(a, d, (lo + hi) \div 2 + 1, hi, rem))

\* the factor that normalizes the divisor b
Normalizer(b) == <<Base \div (b[Len(b)] + 1)>>

\* the digits of the quotient of a by b, and the remainder (a limb for a b of
\* one limb, else the remainder of the normalized division), for b > 0.  The
\* leading Len(b) - 1 limbs of a give no digit: they start the remainder.
DivNormalized(a, b) ==
    IF Len(a) < Len(b) THEN [digits |-> <<>>, rem |-> a]
    ELSE DivRange(a, b, 1, Len(a) - Len(b) + 1,
                  SubSeq(a, Len(a) - Len(b) + 2, Len(a)))

DivMod(a, b) ==
    IF Len(b) = 1 THEN DivSmallRange(a, b[1], 1, Len(a), 0)
    ELSE DivNormalized(NatMul(a, Normalizer(b)), NatMul(b, Normalizer(b)))

\* the limbs of the digits ds, least significant first
Quotient(ds) == Trim([k \in 1..Len(ds) |-> ds[Len(ds) + 1 - k]])

\* floor(a / b) and a mod b, for b > 0
NatDiv(a, b) == IF a = <<>> THEN <<>> ELSE Quotient(DivMod(a, b).digits)

NatMod(a, b) ==
    IF Len(b) = 1 THEN NatOf(DivMod(a, b).rem)
    ELSE NatDiv(DivMod(a, b).rem, Normalizer(b))

\* floor(sqrt(k)) for a machine integer k >= 1, by Newton's iteration from y
RECURSIVE SmallRoot(_, _)
SmallRoot(k, y) ==
    IF (y + k \div y) \div 2 >= y THEN y ELSE SmallRoot(k, (y + k \div y) \div 2)

\* Newton's step from y towards sqrt(x)
SqrtNext(x, y) == NatDiv(NatAdd(y, NatDiv(x, y)), <<2>>)

\* the iteration from y, whose step is next, until it no longer descends
RECURSIVE SqrtIter(_, _, _)
SqrtIter(x, y, next) ==
    IF NatCmp(next, y) >= 0 THEN y ELSE SqrtIter(x, next, SqrtNext(x, next))

SqrtFrom(x, y) == SqrtIter(x, y, SqrtNext(x, y))

\* the leading limb of x (an odd length) or its two leading limbs (an even one)
LeadOf(x) ==
    IF Len(x) % 2 = 1 THEN x[Len(x)] ELSE x[Len(x)] * Base + x[Len(x) - 1]

\* floor(sqrt(x)) by Newton's iteration, from a guess above the root taken
\* from the leading limbs
NatSqrt(x) ==
    IF x = <<>> THEN <<>>
    ELSE SqrtFrom(x, [i \in 1..((Len(x) - 1) \div 2) |-> 0]
                         \o NatOf(SmallRoot(LeadOf(x), LeadOf(x)) + 1))

(***************************************************************************)
(* Signed numbers                                                          *)
(***************************************************************************)
\* the number of sign neg and magnitude mag; zero has no sign
Mk(neg, mag) == [neg |-> neg /\ mag # <<>>, mag |-> mag]

Zero == Mk(FALSE, <<>>)

Num(n) == IF n < 0 THEN Mk(TRUE, NatOf(-n)) ELSE Mk(FALSE, NatOf(n))

\* the decimal number written a,bbbbbb,cccccc (two groups of six digits)
Dec3(a, b, c) ==
    Mk(FALSE, NatAdd(NatMul(NatOf(a), <<0, 0, 0, 1>>),
                     NatAdd(NatMul(NatOf(b), <<0, 100>>), NatOf(c))))

Neg(x) == Mk(~x.neg, x.mag)

Abs(x) == Mk(FALSE, x.mag)

Add(x, y) ==
    IF x.neg = y.neg THEN Mk(x.neg, NatAdd(x.mag, y.mag))
    ELSE IF NatCmp(x.mag, y.mag) >= 0 THEN Mk(x.neg, NatSub(x.mag, y.mag))
    ELSE Mk(y.neg, NatSub(y.mag, x.mag))

Sub(x, y) == Add(x, Neg(y))

Mul(x, y) == Mk(x.neg # y.neg, NatMul(x.mag, y.mag))

\* -1, 0 or 1 as x is below, equal to or above y
Cmp(x, y) ==
    IF x.neg /\ ~y.neg THEN -1
    ELSE IF ~x.neg /\ y.neg THEN 1
    ELSE IF x.neg THEN NatCmp(y.mag, x.mag)
    ELSE NatCmp(x.mag, y.mag)

Lt(x, y) == Cmp(x, y) < 0

Le(x, y) == Cmp(x, y) <= 0

Gt(x, y) == Cmp(x, y) > 0

Ge(x, y) == Cmp(x, y) >= 0

(***************************************************************************)
(* f64: fixed-point numbers, the value times Scale = Base^4                *)
(***************************************************************************)
ScaleUp(mag) == Trim(<<0, 0, 0, 0>> \o mag)

\* a magnitude divided by Scale, rounded to the nearest, a tie upwards
ScaleDown(mag) ==
    NatAdd(IF Len(mag) >= 5 THEN SubSeq(mag, 5, Len(mag)) ELSE <<>>,
           IF Limb(mag, 4) >= Base \div 2 THEN <<1>> ELSE <<>>)

\* the f64 of a small integer literal such as 2.0 or 360.0
F(k) == Mk(k < 0, ScaleUp(NatOf(IF k < 0 THEN -k ELSE k)))

\* the f64 literal i.fffffffff (nine decimal places)
Lit(i, f9) == Mk(FALSE, NatAdd(ScaleUp(NatOf(i)), NatMul(NatOf(f9), <<0, 1000>>)))

\* `x as f64` for an i64 x
I64ToF64(x) == Mk(x.neg, ScaleUp(x.mag))

FMul(x, y) == Mk(x.neg # y.neg, ScaleDown(NatMul(x.mag, y.mag)))

\* x / y rounded to the nearest, for y # 0
FDiv(x, y) ==
    Mk(x.neg # y.neg,
       NatDiv(NatAdd(NatMul(ScaleUp(x.mag), <<2>>), y.mag), NatMul(y.mag, <<2>>)))

\* x divided by the small positive integer k, rounded to the nearest
RDivSmall(x, k) ==
    Mk(x.neg, NatDiv(NatAdd(NatMul(x.mag, <<2>>), NatOf(k)), NatOf(2 * k)))

\* a faulty variant of FRound, to test C9 against: a tie goes upwards
FRoundHalfUp(x) ==
    IF x.neg THEN Mk(TRUE, ScaleUp(ScaleDown(NatSub(x.mag, <<1>>))))
    ELSE Mk(FALSE, ScaleUp(ScaleDown(x.mag)))

\* f64::round: the nearest integer, a tie away from zero
FRound(x) == Mk(x.neg, ScaleUp(ScaleDown(x.mag)))

FSqrt(x) == Mk(FALSE, NatSqrt(ScaleUp(x.mag)))

\* std::f64::consts::PI
PI == Mk(FALSE, <<7932, 3589, 9265, 1415, 3>>)

\* std::f64::consts::FRAC_PI_2 and 2 pi
HalfPI == Mk(FALSE, <<8966, 6794, 9632, 5707, 1>>)

TwoPI == Mk(FALSE, <<5864, 7179, 8530, 2831, 6>>)

\* sum plus the rest of the series x - x^3/3! + x^5/5! - ... from the k-th
\* term on, x2 being x^2, until a term no longer changes the sum
RECURSIVE SinSeries(_, _, _, _)
SinSeries(sum, term, x2, k) ==
    IF Add(sum, term) = sum THEN sum
    ELSE SinSeries(Add(sum, term),
                   Neg(RDivSmall(FMul(term, x2), (2 * k) * (2 * k + 1))), x2, k + 1)

\* x reduced to [0, 2 pi)
ReduceSigned(neg, m) == IF neg /\ m # Zero THEN Sub(TwoPI, m) ELSE m

Reduce(x) == ReduceSigned(x.neg, Mk(FALSE, NatMod(x.mag, TwoPI.mag)))

\* r in [0, 2 pi) brought to (-pi, pi], then to [-pi/2, pi/2] by
\* sin(pi - r) = sin(r)
FoldToPI(r) == IF Gt(r, PI) THEN Sub(r, TwoPI) ELSE r

FoldToHalfPI(r) ==
    IF Gt(r, HalfPI) THEN Sub(PI, r)
    ELSE IF Lt(r, Neg(HalfPI)) THEN Sub(Neg(PI), r)
    ELSE r

SinOfReduced(r) == SinSeries(Zero, r, FMul(r, r), 1)

\* f64::sin
FSin(x) == SinOfReduced(FoldToHalfPI(FoldToPI(Reduce(x))))

\* f64::cos
FCos(x) == FSin(Add(x, HalfPI))

\* sum plus the rest of the series x + x^3/6 + 3 x^5/40 + ... from the k-th
\* term c / (2k + 1) on, c being x^(2k+1) (2k-1)!! / (2k)!! and x2 being x^2,
\* until a term no longer changes the sum
RECURSIVE AsinSeries(_, _, _, _)
AsinSeries(sum, c, x2, k) ==
    IF Add(sum, RDivSmall(c, 2 * k + 1)) = sum THEN sum
    ELSE AsinSeries(Add(sum, RDivSmall(c, 2 * k + 1)),
                    RDivSmall(Mul(FMul(c, x2), Num(2 * k + 1)), 2 * k + 2),
                    x2, k + 1)

\* a with the sign given
Signed(neg, a) == IF neg THEN Neg(a) ELSE a

\* asin(x) for 1/2 < |x| <= 1, as pi/2 - 2 asin(y) with y = sqrt((1 - |x|) / 2)
AsinNearOne(neg, y) ==
    Signed(neg, Sub(HalfPI, Mul(Num(2), AsinSeries(Zero, y, FMul(y, y), 0))))

\* f64::asin, for -1 <= x <= 1
FAsin(x) ==
    IF Le(Abs(x), RDivSmall(F(1), 2)) THEN AsinSeries(Zero, x, FMul(x, x), 0)
    ELSE AsinNearOne(x.neg, FSqrt(RDivSmall(Sub(F(1), Abs(x)), 2)))

\* f64::acos, for -1 <= x <= 1
FAcos(x) == Sub(HalfPI, FAsin(x))

(***************************************************************************)
(* i64 and u32                                                             *)
(***************************************************************************)
I64_MAX == Dec3(9223372, 36854, 775807)

I64_MIN == Neg(Add(I64_MAX, Num(1)))

Two64 == Add(Add(I64_MAX, I64_MAX), Num(2))

Two32 == Dec3(0, 4294, 967296)

InI64(v) == Le(I64_MIN, v) /\ Le(v, I64_MAX)

Wrap64(v) ==
    IF Gt(v, I64_MAX) THEN Sub(v, Two64)
    ELSE IF Lt(v, I64_MIN) THEN Add(v, Two64)
    ELSE v

\* An i64 `+` or `-` whose exact result is v: with overflow checks (the dev
\* profile) a result out of range panics, without (the release profile) it
\* wraps.  `wrapped` records that it did.
I64Op(checks, v) ==
    IF InI64(v) THEN [panic |-> FALSE, val |-> v, wrapped |-> FALSE]
    ELSE IF checks THEN [panic |-> TRUE, val |-> Zero, wrapped |-> FALSE]
    ELSE [panic |-> FALSE, val |-> Wrap64(v), wrapped |-> TRUE]

\* `x as i64` for an f64 x: truncation towards zero, saturating
Saturated(t) ==
    IF Gt(t, I64_MAX) THEN I64_MAX
    ELSE IF Lt(t, I64_MIN) THEN I64_MIN
    ELSE t

F64ToI64(x) ==
    Saturated(Mk(x.neg, IF Len(x.mag) >= 5 THEN SubSeq(x.mag, 5, Len(x.mag)) ELSE <<>>))

\* i64 `/` and `%` by a positive k: the quotient truncated towards zero, the
\* remainder with the sign of the dividend
I64Div(x, k) == Mk(x.neg, NatDiv(x.mag, NatOf(k)))

I64Rem(x, k) == Mk(x.neg, NatMod(x.mag, NatOf(k)))

\* `x as u32` for an i64 x with |x| < 2^32
I64ToU32(x) == IF x.neg THEN Add(x, Two32) ELSE x

\* a u32 `*` whose exact result is v
U32Op(checks, v) ==
    IF Lt(v, Two32) THEN [panic |-> FALSE, val |-> v, wrapped |-> FALSE]
    ELSE IF checks THEN [panic |-> TRUE, val |-> Zero, wrapped |-> FALSE]
    ELSE [panic |-> FALSE, val |-> Mk(FALSE, NatMod(v.mag, Two32.mag)), wrapped |-> TRUE]

(***************************************************************************)
(* src/src/calc.rs                                                         *)
(***************************************************************************)
DEGREES_TO_RADIANS == FDiv(PI, F(180))

J0 == Lit(0, 900000)

ALTITUDE_CORRECTION_CIVIL_TWILIGHT == FMul(FDiv(PI, F(180)), F(6))

C1 == Lit(0, 33419600)

C2 == Lit(0, 349066)

C3 == Lit(0, 5236)

OBLIQUITY == Lit(0, 409279710)

UTC_2000 == Dec3(0, 946728, 0)

DAY_IN_MILLIS == Num(1000 * 60 * 60 * 24)

None == <<>>

Some(x) == <<x>>

Panicked == [panic |-> TRUE]

days_since_2000(diff) == FDiv(I64ToF64(diff), I64ToF64(DAY_IN_MILLIS))

mean_anomaly(days) == Add(Lit(6, 240059968), FMul(days, Lit(0, 17201970)))

true_anomaly(ma) ==
    Add(Add(Add(ma, FMul(C1, FSin(ma))),
            FMul(C2, FSin(FMul(F(2), ma)))),
        FMul(C3, FSin(FMul(F(3), ma))))

solar_lng(ta) == Add(Add(ta, Lit(1, 796593063)), PI)

arc_longitude(longitude) == FDiv(Neg(longitude), F(360))

n_round(days, al) == FRound(Sub(Sub(days, J0), al))

solar_transit_j2000(nr, al, ma, sl) ==
    Add(Add(Add(Add(nr, J0), al), FMul(Lit(0, 5300000), FSin(ma))),
        FMul(Neg(Lit(0, 6900000)), FSin(FMul(F(2), sl))))

solar_dec(sl) == FAsin(FMul(FSin(sl), FSin(OBLIQUITY)))

lat_rad(latitude) == FMul(latitude, DEGREES_TO_RADIANS)

\* calculate_twilight up to the closure, let by let: the locals of the call,
\* or a panic
WithLocals(time, latitude, wrapped, days, al, ma, ta, sl, nr) ==
    [panic |-> FALSE,
     time |-> time,
     days_since_2000 |-> days,
     mean_anomaly |-> ma,
     true_anomaly |-> ta,
     solar_lng |-> sl,
     arc_longitude |-> al,
     n |-> nr,
     solar_transit_j2000 |-> solar_transit_j2000(nr, al, ma, sl),
     solar_dec |-> solar_dec(sl),
     lat_rad |-> lat_rad(latitude),
     wrapped |-> wrapped]

WithTrueAnomaly(time, latitude, wrapped, days, al, ma, ta) ==
    WithLocals(time, latitude, wrapped, days, al, ma, ta, solar_lng(ta), n_round(days, al))

WithMeanAnomaly(time, latitude, wrapped, days, al, ma) ==
    WithTrueAnomaly(time, latitude, wrapped, days, al, ma, true_anomaly(ma))

WithDays(time, latitude, wrapped, days, al) ==
    WithMeanAnomaly(time, latitude, wrapped, days, al, mean_anomaly(days))

SinceUtc2000(time, latitude, longitude, diff) ==
    IF diff.panic THEN Panicked
    ELSE WithDays(time, latitude, diff.wrapped, days_since_2000(diff.val),
                  arc_longitude(longitude))

SolarGeometry(checks, time, latitude, longitude) ==
    SinceUtc2000(time, latitude, longitude, I64Op(checks, Sub(time, UTC_2000)))

\* the closure result_factory, up to its call of cos_hour_angle_to_times
cos_hour_angle(sun_altitude_delta, lr, dec) ==
    FDiv(Sub(FSin(sun_altitude_delta), FMul(FSin(lr), FSin(dec))),
         FMul(FCos(lr), FCos(dec)))

\* `x.round() as i64 + UTC_2000`, r being x.round()
Instant(checks, x, r) ==
    [x |-> x, r |-> r, ms |-> I64Op(checks, Add(F64ToI64(r), UTC_2000))]

RoundedInstant(checks, x) == Instant(checks, x, FRound(x))

\* the TwilightTimes of the two instants (and, beside it, what each was
\* rounded from and to), or the panic of either addition
TimesOfInstants(hour_angle, sunset, sunrise) ==
    IF sunset.ms.panic \/ sunrise.ms.panic THEN Panicked
    ELSE [panic |-> FALSE,
          sunset |-> sunset.ms.val,
          sunrise |-> sunrise.ms.val,
          hour_angle |-> hour_angle,
          sunset_f |-> sunset.x,
          sunset_r |-> sunset.r,
          sunrise_f |-> sunrise.x,
          sunrise_r |-> sunrise.r,
          wrapped |-> sunset.ms.wrapped \/ sunrise.ms.wrapped]

hour_angle_to_times(checks, transit, hour_angle) ==
    TimesOfInstants(hour_angle,
                    RoundedInstant(checks, FMul(Add(transit, hour_angle),
                                                I64ToF64(DAY_IN_MILLIS))),
                    RoundedInstant(checks, FMul(Sub(transit, hour_angle),
                                                I64ToF64(DAY_IN_MILLIS))))

hour_angle(cha) == FDiv(FAcos(cha), FMul(F(2), PI))

\* Twilight { state, times: None }
Polar(state) ==
    [panic |-> FALSE, state |-> state, times |-> None, locals |-> None, wrapped |-> FALSE]

\* a faulty variant of WithTimes, to test C3 against: the two tests not strict
WithTimesInclusive(time, times) ==
    IF times.panic THEN Panicked
    ELSE [panic |-> FALSE,
          state |-> IF Le(times.sunrise, time) /\ Ge(times.sunset, time)
                    THEN "Day" ELSE "Night",
          times |-> Some([sunrise |-> times.sunrise, sunset |-> times.sunset]),
          locals |-> Some(times),
          wrapped |-> times.wrapped]

\* Twilight { state, times: Some(times) }, state from the two strict tests
WithTimes(time, times) ==
    IF times.panic THEN Panicked
    ELSE [panic |-> FALSE,
          state |-> IF Lt(times.sunrise, time) /\ Gt(times.sunset, time)
                    THEN "Day" ELSE "Night",
          times |-> Some([sunrise |-> times.sunrise, sunset |-> times.sunset]),
          locals |-> Some(times),
          wrapped |-> times.wrapped]

\* a faulty variant of cos_hour_angle_to_times, to test C2 against: the range
\* tests strict
cos_hour_angle_to_times_strict(checks, time, transit, cha) ==
    IF Gt(cha, F(1)) THEN Polar("Night")
    ELSE IF Lt(cha, F(-1)) THEN Polar("Day")
    ELSE WithTimes(time, hour_angle_to_times(checks, transit, hour_angle(cha)))

cos_hour_angle_to_times(checks, time, transit, cha) ==
    IF Ge(cha, F(1)) THEN Polar("Night")
    ELSE IF Le(cha, F(-1)) THEN Polar("Day")
    ELSE WithTimes(time, hour_angle_to_times(checks, transit, hour_angle(cha)))

\* the closure result_factory on the locals g
result_factory(checks, g, sun_altitude_delta) ==
    cos_hour_angle_to_times(checks, g.time, g.solar_transit_j2000,
                            cos_hour_angle(sun_altitude_delta, g.lat_rad, g.solar_dec))

\* the result r of a call whose subtraction wrapped (w) or did not
AfterSubtraction(r, w) ==
    IF r.panic THEN Panicked ELSE [r EXCEPT !.wrapped = r.wrapped \/ w]

CallFactory(checks, g) ==
    IF g.panic THEN Panicked
    ELSE AfterSubtraction(result_factory(checks, g, ALTITUDE_CORRECTION_CIVIL_TWILIGHT),
                          g.wrapped)

calculate_twilight(checks, time, latitude, longitude) ==
    CallFactory(checks, SolarGeometry(checks, time, latitude, longitude))

(***************************************************************************)
(* src/src/lib.rs                                                          *)
(***************************************************************************)
\* the pair (s, ns), or the panic of the multiplication
SecondsAndNanos(s, ns) ==
    IF ns.panic THEN Panicked
    ELSE [panic |-> FALSE, s |-> s, ns |-> ns.val, wrapped |-> ns.wrapped]

\* ms_to_s_ns: (ms / 1000, (ms % 1000) as u32 * 1000_000)
ms_to_s_ns(checks, ms) ==
    SecondsAndNanos(I64Div(ms, 1000),
                    U32Op(checks, Mul(I64ToU32(I64Rem(ms, 1000)), Num(1000000))))

\* the Twilight of a result r: what Twilight::state() and twilight_times() give
Twilight(r) == [state |-> r.state, times |-> r.times]

\* the degrees of the tests: sign * (h * 3600 + m * 60 + s) as f64 / 3600.0
Degrees(sign, h, m, sec) ==
    Mul(Num(sign), FDiv(F(h * 3600 + m * 60 + sec), F(3600)))

\* the f64 literal i.hhhhhhhhllllllll (sixteen decimal places)
Lit16(i, h8, l8) ==
    Mk(FALSE, NatAdd(ScaleUp(NatOf(i)), NatAdd(NatMul(NatOf(h8), <<0, 0, 1>>), NatOf(l8))))

(***************************************************************************)
(* The calls the model makes                                               *)
(***************************************************************************)
Call(time, latitude, longitude) ==
    [time |-> time, latitude |-> latitude, longitude |-> longitude]

\* tests::it_works: People's Square, Shanghai, 2019-08-25T11:30:08.294+08:00
Shanghai == Call(Dec3(1, 566703, 808294), Degrees(1, 31, 13, 43), Degrees(1, 121, 28, 29))

\* tests::it_works: the Antarctic Taishan station, 2019-01-01T00:00:00+08:00
Taishan == Call(Dec3(1, 546272, 0), Degrees(-1, 73, 51, 50), Degrees(1, 76, 58, 29))

\* the same station a day later
TaishanNextDay ==
    Call(Dec3(1, 546358, 400000), Degrees(-1, 73, 51, 50), Degrees(1, 76, 58, 29))

\* the same instant and meridian in the Arctic: polar night
ArcticNight == Call(Dec3(1, 546272, 0), Degrees(1, 73, 51, 50), Degrees(1, 76, 58, 29))

\* the same instant and meridian at the latitudes where cos_hour_angle is
\* exactly -1.0, exactly 1.0, and the last value below 1.0
EdgeOfDay ==
    Call(Dec3(1, 546272, 0), Neg(Lit16(72, 89765331, 55961364)), Degrees(1, 76, 58, 29))

EdgeOfNight ==
    Call(Dec3(1, 546272, 0), Lit16(60, 89765331, 55961307), Degrees(1, 76, 58, 29))

InsideEdge ==
    Call(Dec3(1, 546272, 0), Lit16(60, 89765331, 55961250), Degrees(1, 76, 58, 29))

\* Shanghai at the instants the call itself reports as sunrise and as sunset
AtSunrise == Call(Dec3(1, 566683, 959208), Degrees(1, 31, 13, 43), Degrees(1, 121, 28, 29))

AtSunset == Call(Dec3(1, 566726, 966556), Degrees(1, 31, 13, 43), Degrees(1, 121, 28, 29))

\* the extremes of i64 and the last millisecond of 1969, at 0 N 0 E
LatestInstant == Call(I64_MAX, F(0), F(0))

EarliestInstant == Call(I64_MIN, F(0), F(0))

Before1970 == Call(Num(-1), F(0), F(0))

\* instants at which days_since_2000 - J0 - arc_longitude is 2.5 and -2.5
TiePositive == Call(Dec3(0, 946944, 77760), F(0), F(0))

TieNegative == Call(Dec3(0, 946512, 77760), F(0), F(0))

Inputs ==
    {Shanghai, Taishan, TaishanNextDay, ArcticNight, EdgeOfDay, EdgeOfNight, InsideEdge, AtSunrise,
     AtSunset, LatestInstant, EarliestInstant, Before1970, TiePositive, TieNegative}

Callers == {"c1", "c2"}

(***************************************************************************)
(* The steps of a call, tabulated over the calls the model makes.  A key   *)
(* <<checks, x>> is the build (overflow checks on or off) and the step's   *)
(* input.                                                                  *)
(***************************************************************************)
Tabulated(f) == f @@ <<>>

\* calculate_twilight from its entry to the closure
SolarGeometryOf ==
    Tabulated([k \in BOOLEAN \X Inputs |->
                  SolarGeometry(k[1], k[2].time, k[2].latitude, k[2].longitude)])

Geometries == {g \in {SolarGeometryOf[k] : k \in BOOLEAN \X Inputs} : ~g.panic}

\* the closure's cos_hour_angle on the locals it captures
CosHourAngleOf ==
    Tabulated([g \in Geometries |->
                  cos_hour_angle(ALTITUDE_CORRECTION_CIVIL_TWILIGHT, g.lat_rad, g.solar_dec)])

\* the arguments the closure passes to cos_hour_angle_to_times
Captured(g, cha) ==
    [time |-> g.time, solar_transit_j2000 |-> g.solar_transit_j2000, cos_hour_angle |-> cha]

CapturedArgs == {Captured(g, CosHourAngleOf[g]) : g \in Geometries}

CosHourAngleToTimesOf ==
    Tabulated([k \in BOOLEAN \X CapturedArgs |->
                  cos_hour_angle_to_times(k[1], k[2].time, k[2].solar_transit_j2000,
                                          k[2].cos_hour_angle)])

\* calculate_twilight as one function of its arguments
TwilightOf ==
    Tabulated([k \in BOOLEAN \X Inputs |->
                  calculate_twilight(k[1], k[2].time, k[2].latitude, k[2].longitude)])

\* the sunrise and sunset instants a result holds
InstantsOf(r) ==
    IF r.panic \/ r.times = None THEN {} ELSE {r.times[1].sunrise, r.times[1].sunset}

Instants == UNION {InstantsOf(CosHourAngleToTimesOf[k]) : k \in BOOLEAN \X CapturedArgs}

SplitOf == Tabulated([k \in BOOLEAN \X Instants |-> ms_to_s_ns(k[1], k[2])])

(***************************************************************************)
(* The callers.  Each caller runs Twilight::calculate step by step on its  *)
(* own frame, then reads the result through sunrise_time / sunset_time.    *)
(*   overflow_checks  the build: TRUE the dev profile, FALSE release       *)
(*   pc[c]            where caller c is                                    *)
(*   frame[c]         the arguments and locals of c's call                 *)
(*   ret[c]           the Twilight c holds                                 *)
(*   conv[c]          what sunrise_time / sunset_time gave c               *)
(*   earlier[c]       c has dropped the Twilight of an earlier call        *)
(***************************************************************************)
VARIABLES overflow_checks, pc, frame, ret, conv, earlier

vars == <<overflow_checks, pc, frame, ret, conv, earlier>>

EmptyFrame == [args |-> None, geo |-> None, cha |-> None, times |-> None]

NoConversions == [sunrise |-> None, sunset |-> None]

Init ==
    /\ overflow_checks \in BOOLEAN
    /\ pc = [c \in Callers |-> "idle"]
    /\ frame = [c \in Callers |-> EmptyFrame]
    /\ ret = [c \in Callers |-> None]
    /\ conv = [c \in Callers |-> NoConversions]
    /\ earlier = [c \in Callers |-> FALSE]

\* a panic unwinds the caller
Unwind(c) ==
    /\ pc' = [pc EXCEPT ![c] = "panicked"]
    /\ UNCHANGED <<overflow_checks, frame, ret, conv, earlier>>

\* Twilight::calculate(time, latitude, longitude) (Twilight::now: the same
\* with the current time) enters calculate_twilight
Calculate(c, a) ==
    /\ pc[c] = "idle"
    /\ pc' = [pc EXCEPT ![c] = "geometry"]
    /\ frame' = [frame EXCEPT ![c].args = Some(a)]
    /\ UNCHANGED <<overflow_checks, ret, conv, earlier>>

GeometryDone(c, g) ==
    IF g.panic THEN Unwind(c)
    ELSE /\ pc' = [pc EXCEPT ![c] = "factory"]
         /\ frame' = [frame EXCEPT ![c].geo = Some(g)]
         /\ UNCHANGED <<overflow_checks, ret, conv, earlier>>

\* a faulty variant of Geometry, to test C6 against: the arguments are kept in
\* one place that all callers share, and the last to call has set
SharedArgs(c) ==
    IF \E d \in Callers \ {c} : frame[d].args # None
    THEN frame[CHOOSE d \in Callers \ {c} : frame[d].args # None].args[1]
    ELSE frame[c].args[1]

GeometryShared(c) ==
    /\ pc[c] = "geometry"
    /\ GeometryDone(c, SolarGeometryOf[<<overflow_checks, SharedArgs(c)>>])

\* calculate_twilight from days_since_2000 to lat_rad
Geometry(c) ==
    /\ pc[c] = "geometry"
    /\ GeometryDone(c, SolarGeometryOf[<<overflow_checks, frame[c].args[1]>>])

\* the closure computes cos_hour_angle
ResultFactory(c) ==
    /\ pc[c] = "factory"
    /\ pc' = [pc EXCEPT ![c] = "classify"]
    /\ frame' = [frame EXCEPT ![c].cha = Some(CosHourAngleOf[frame[c].geo[1]])]
    /\ UNCHANGED <<overflow_checks, ret, conv, earlier>>

Classified(c, r) ==
    IF r.panic THEN Unwind(c)
    ELSE /\ pc' = [pc EXCEPT ![c] = "returned"]
         /\ frame' = [frame EXCEPT ![c].times = r.locals]
         /\ ret' = [ret EXCEPT ![c] = Some(Twilight(r))]
         /\ UNCHANGED <<overflow_checks, conv, earlier>>

\* a faulty variant of CosHourAngleToTimes, to test C7 against: the closure's
\* captures are kept in one place that all callers share
SharedFrame(c) ==
    IF \E d \in Callers \ {c} : frame[d].cha # None
    THEN frame[CHOOSE d \in Callers \ {c} : frame[d].cha # None]
    ELSE frame[c]

CosHourAngleToTimesShared(c) ==
    /\ pc[c] = "classify"
    /\ Classified(c, CosHourAngleToTimesOf[<<overflow_checks,
                                            Captured(SharedFrame(c).geo[1],
                                                     SharedFrame(c).cha[1])>>])

\* cos_hour_angle_to_times, and the return of the Twilight to the caller
CosHourAngleToTimes(c) ==
    /\ pc[c] = "classify"
    /\ Classified(c, CosHourAngleToTimesOf[<<overflow_checks,
                                            Captured(frame[c].geo[1], frame[c].cha[1])>>])

Converted(c, which, split) ==
    IF split.panic THEN Unwind(c)
    ELSE /\ conv' = [conv EXCEPT ![c][which] = Some(split)]
         /\ UNCHANGED <<overflow_checks, pc, frame, ret, earlier>>

\* TwilightTimes::sunrise_time
SunriseTime(c) ==
    /\ pc[c] = "returned"
    /\ ret[c][1].times # None
    /\ conv[c].sunrise = None
    /\ Converted(c, "sunrise", SplitOf[<<overflow_checks, ret[c][1].times[1].sunrise>>])

\* TwilightTimes::sunset_time
SunsetTime(c) ==
    /\ pc[c] = "returned"
    /\ ret[c][1].times # None
    /\ conv[c].sunset = None
    /\ Converted(c, "sunset", SplitOf[<<overflow_checks, ret[c][1].times[1].sunset>>])

\* the caller drops the Twilight and is free to call again
Drop(c) ==
    /\ pc[c] = "returned"
    /\ pc' = [pc EXCEPT ![c] = "idle"]
    /\ frame' = [frame EXCEPT ![c] = EmptyFrame]
    /\ ret' = [ret EXCEPT ![c] = None]
    /\ conv' = [conv EXCEPT ![c] = NoConversions]
    /\ earlier' = [earlier EXCEPT ![c] = TRUE]
    /\ UNCHANGED overflow_checks

Next ==
    \E c \in Callers :
        \/ \E a \in Inputs : Calculate(c, a)
        \/ Geometry(c)
        \/ ResultFactory(c)
        \/ CosHourAngleToTimes(c)
        \/ SunriseTime(c)
        \/ SunsetTime(c)
        \/ Drop(c)

Spec == Init /\ [][Next]_vars

(***************************************************************************)
(* Properties                                                              *)
(***************************************************************************)
\* caller c's call has ended: it returned, or it panicked
Ended(c) == pc[c] \in {"returned", "panicked"}

\* caller c holds a Twilight whose times are present
HoldsTimes(c) == ret[c] # None /\ ret[c][1].times # None

ArgsOf(c) == frame[c].args[1]

ChaOf(c) == frame[c].cha[1]

TimesOf(c) == ret[c][1].times[1]

\* C1: every call that has ended returned a Twilight, with a state, whose
\* times are present if and only if cos_hour_angle lies strictly between -1
\* and 1.
C1_TimesIffSolution ==
    \A c \in Callers :
        Ended(c) =>
            /\ ret[c] # None
            /\ ret[c][1].state \in {"Day", "Night"}
            /\ (ret[c][1].times # None) <=> (Lt(F(-1), ChaOf(c)) /\ Lt(ChaOf(c), F(1)))

\* C2: cos_hour_angle_to_times gives exactly (Night, None) when
\* cos_hour_angle >= 1 and exactly (Day, None) when cos_hour_angle <= -1,
\* whatever the time and the solar transit of the call.
C2_PolarOutcome ==
    \A c \in Callers :
        (Ended(c) /\ frame[c].cha # None) =>
            /\ Ge(ChaOf(c), F(1)) => ret[c] = Some([state |-> "Night", times |-> None])
            /\ Le(ChaOf(c), F(-1)) => ret[c] = Some([state |-> "Day", times |-> None])

\* one caller was answered at cos_hour_angle exactly 1.0, another at exactly -1.0
C2_BothEdgesAnswered ==
    \E c, d \in Callers :
        /\ ret[c] # None /\ ChaOf(c) = F(1)
        /\ ret[d] # None /\ ChaOf(d) = F(-1)

\* C3: when the times are present, the state is Day if and only if
\* sunrise < time < sunset, both strictly, for the sunrise and sunset of the
\* same result; at time = sunrise or time = sunset the state is Night.
C3_DayIffStrictlyBetween ==
    \A c \in Callers :
        HoldsTimes(c) =>
            (ret[c][1].state = "Day")
                <=> (Lt(TimesOf(c).sunrise, ArgsOf(c).time)
                         /\ Lt(ArgsOf(c).time, TimesOf(c).sunset))

\* one caller asked at the very sunrise it was given, another at the very
\* sunset, and both were told Night
C3_AskedAtSunriseAndAtSunset ==
    \E c, d \in Callers :
        /\ HoldsTimes(c) /\ TimesOf(c).sunrise = ArgsOf(c).time /\ ret[c][1].state = "Night"
        /\ HoldsTimes(d) /\ TimesOf(d).sunset = ArgsOf(d).time /\ ret[d][1].state = "Night"

\* (s, ns) splits ms without loss
IsLosslessSplit(ms, split) ==
    /\ ~split.wrapped
    /\ Le(Zero, split.ns) /\ Lt(split.ns, Num(1000000000))
    /\ NatMod(split.ns.mag, NatOf(1000000)) = <<>>
    /\ Add(Mul(split.s, Num(1000)), I64Div(split.ns, 1000000)) = ms

\* C4: sunrise_time and sunset_time never overflow, and the (s, ns) that
\* ms_to_s_ns gives them is a lossless split of the stored instant ms:
\* 0 <= ns < 1_000_000_000, ns a multiple of 1_000_000, and
\* s * 1000 + ns / 1_000_000 = ms.
C4_LosslessSplit ==
    \A c \in Callers :
        /\ ~(pc[c] = "panicked" /\ ret[c] # None)
        /\ \A w \in {"sunrise", "sunset"} :
               conv[c][w] # None => IsLosslessSplit(TimesOf(c)[w], conv[c][w][1])

\* C5: calculate_twilight never panics and none of its i64 operations
\* (time - UTC_2000, and the two additions of UTC_2000) leaves the i64 range.
C5_NoOverflow ==
    \A c \in Callers :
        /\ ~(pc[c] = "panicked" /\ ret[c] = None)
        /\ frame[c].geo # None => ~frame[c].geo[1].wrapped
        /\ frame[c].times # None => ~frame[c].times[1].wrapped

\* C6: two calls with the same (time, latitude, longitude) end the same way,
\* with the same state and the same optional (sunrise, sunset), whatever other
\* calls were made before or between them.
C6_Deterministic ==
    \A c, d \in Callers :
        (Ended(c) /\ Ended(d) /\ ArgsOf(c) = ArgsOf(d)) => ret[c] = ret[d]

\* two callers hold the results of calls with the same arguments, one of them
\* after an earlier call of its own
C6_SameCallAfterAnother ==
    \E c, d \in Callers :
        /\ c # d
        /\ ret[c] # None /\ ret[d] # None
        /\ ArgsOf(c) = ArgsOf(d)
        /\ earlier[d]

\* C7: under every interleaving of the callers' steps, a call ends as a
\* solitary call of calculate_twilight with the same arguments ends: with the
\* same Twilight, or with a panic.
C7_AsSolitaryCall ==
    \A c \in Callers :
        Ended(c) =>
            IF TwilightOf[<<overflow_checks, ArgsOf(c)>>].panic
            THEN pc[c] = "panicked" /\ ret[c] = None
            ELSE ret[c] = Some(Twilight(TwilightOf[<<overflow_checks, ArgsOf(c)>>]))

\* one caller has its Twilight, with times, while another, called with other
\* arguments, is in the middle of its call
C7_ReturnedBesideRunningCall ==
    \E c, d \in Callers :
        /\ HoldsTimes(c)
        /\ pc[d] = "classify"
        /\ ArgsOf(c) # ArgsOf(d)
        /\ frame[c].geo # frame[d].geo

\* C8: when the times are present, sunset is
\* round((solar_transit_j2000 + hour_angle) * 86400000) + 946728000000 and
\* sunrise is round((solar_transit_j2000 - hour_angle) * 86400000)
\* + 946728000000, with hour_angle = acos(cos_hour_angle) / (2 pi).
C8_TimesFormula ==
    \A c \in Callers :
        HoldsTimes(c) =>
            /\ TimesOf(c).sunset
                   = Add(F64ToI64(FRound(FMul(Add(frame[c].geo[1].solar_transit_j2000,
                                                  FDiv(FAcos(ChaOf(c)), FMul(F(2), PI))),
                                              F(86400000)))),
                         Dec3(0, 946728, 0))
            /\ TimesOf(c).sunrise
                   = Add(F64ToI64(FRound(FMul(Sub(frame[c].geo[1].solar_transit_j2000,
                                                  FDiv(FAcos(ChaOf(c)), FMul(F(2), PI))),
                                              F(86400000)))),
                         Dec3(0, 946728, 0))

\* r is an integer
IsInteger(r) == \A i \in 1..4 : Limb(r.mag, i) = 0

\* r is x rounded to the nearest integer, a tie away from zero
IsRoundedHalfAway(x, r) ==
    /\ IsInteger(r)
    /\ Le(Mul(Num(2), Abs(Sub(r, x))), F(1))
    /\ Mul(Num(2), Abs(Sub(r, x))) = F(1) => Gt(Abs(r), Abs(x))

\* what n is rounded from
DayNumberOf(g) == Sub(Sub(g.days_since_2000, J0), g.arc_longitude)

\* C9: every round() of the calculation (the solar-day number n, and sunrise
\* and sunset in whole milliseconds) gives the nearest integer, a tie away
\* from zero, for positive and for negative arguments.
C9_RoundHalfAwayFromZero ==
    \A c \in Callers :
        /\ frame[c].geo # None =>
               IsRoundedHalfAway(DayNumberOf(frame[c].geo[1]), frame[c].geo[1].n)
        /\ frame[c].times # None =>
               /\ IsRoundedHalfAway(frame[c].times[1].sunset_f, frame[c].times[1].sunset_r)
               /\ IsRoundedHalfAway(frame[c].times[1].sunrise_f, frame[c].times[1].sunrise_r)

\* one call rounded 2.5 to 3 and another -2.5 to -3
C9_BothTiesRounded ==
    \E c, d \in Callers :
        /\ frame[c].geo # None
        /\ DayNumberOf(frame[c].geo[1]) = RDivSmall(F(5), 2)
        /\ frame[c].geo[1].n = F(3)
        /\ frame[d].geo # None
        /\ DayNumberOf(frame[d].geo[1]) = Neg(RDivSmall(F(5), 2))
        /\ frame[d].geo[1].n = F(-3)

\* C10: when the times are present, sunrise <= sunset and
\* sunset - sunrise <= 86400000.
C10_SunriseBeforeSunset ==
    \A c \in Callers :
        HoldsTimes(c) =>
            /\ Le(TimesOf(c).sunrise, TimesOf(c).sunset)
            /\ Le(Sub(TimesOf(c).sunset, TimesOf(c).sunrise), Num(86400000))

====
